---- MODULE Spec2Model ----
(***************************************************************************)
(* The SQLAlchemy study scripts as state machines over a relational store. *)
(*                                                                         *)
(* Each script (and each function of orm.py, taken as an entry point) is a *)
(* straight-line program: a sequence of instructions read off its source.  *)
(* The actions below execute one instruction at a time against a store     *)
(* with transactions: `store` is what is durable, `work` is what the open  *)
(* connection sees.  An exception (a failing statement, a TypeError raised *)
(* by the script itself) unwinds the open `with` blocks and ends the run,  *)
(* since no script has a try/except.                                       *)
(***************************************************************************)
EXTENDS Integers, Sequences, FiniteSets, TLC

VARIABLES
    prog,        \* which program runs
    pc,          \* index of the next instruction of Program(prog)
    status,      \* "running", "finished" (fell off the end), "crashed" (uncaught exception)
    engine,      \* "none", "created", "disposed"
    store,       \* durable content: existing table -> sequence of rows
    work,        \* content as seen by the open connection / session
    dbTxn,       \* TRUE when the DBAPI connection has a transaction open
    scopes,      \* stack of open `with` blocks (connect / begin / Session / session.begin)
    base,        \* number of scopes opened by the caller of an entry point
    ended,       \* history: the scopes that have exited, in order
    exc,         \* the exception in flight, "none" when there is none
    result,      \* rows held by the last result object
    bsRead,      \* collections yielded by reads of A.bs
    pending,     \* tables the session still has to flush for the added objects
    added,       \* the objects given to session.add_all
    log,         \* history: the statements issued, in order
    insertedOk   \* history: rows inserted per table by blocks that exited without error

vars == <<prog, pc, status, engine, store, work, dbTxn, scopes, base, ended, exc,
          result, bsRead, pending, added, log, insertedOk>>

----------------------------------------------------------------------------
(* Bounds of the entry points' initial stores *)

MaxPre == 2      \* Parent rows already in the store when an orm.py function is called
MaxKids == 1     \* Child rows each of those Parents may already have

----------------------------------------------------------------------------
(* Values *)

NoId == 0                 \* SQL NULL in an integer column
NullStr == "NULL"         \* SQL NULL in a text column

AllTables == {"some_table", "t1", "user_account", "address", "a", "b"}

EmptyStore == [t \in {} |-> <<>>]

ZeroCount == [t \in AllTables |-> 0]

Range(s) == {s[i] : i \in 1..Len(s)}

RECURSIVE MaxOf(_)
MaxOf(S) == IF S = {} THEN 0
            ELSE LET m == CHOOSE v \in S : TRUE
                     r == MaxOf(S \ {m})
                 IN IF m > r THEN m ELSE r

\* Integer primary keys are assigned by the store: one more than the largest.
NextId(rows) == MaxOf({rows[i].id : i \in 1..Len(rows)}) + 1

\* All orderings of a sequence: what a SELECT without ORDER BY may return.
RECURSIVE Perms(_)
Perms(s) ==
    IF Len(s) = 0 THEN {<<>>}
    ELSE UNION { { <<s[i]>> \o p :
                   p \in Perms([j \in 1..(Len(s) - 1) |-> IF j < i THEN s[j] ELSE s[j + 1]]) }
                 : i \in 1..Len(s) }

----------------------------------------------------------------------------
(* Instructions *)

I(op, kind, table, params, line) ==
    [op |-> op, kind |-> kind, table |-> table, params |-> params, line |-> line]

\* working_with_transactions_and_the_dbapi.py, the whole module
TxnScript ==
    << I("engine", "sqlite", "", <<>>, 4),
       I("open", "connect", "", <<>>, 6),
       I("exec", "select_const", "", <<>>, 7),
       I("close", "connect", "", <<>>, 8),
       I("open", "connect", "", <<>>, 11),
       I("exec", "ddl", "some_table", <<"some_table">>, 12),
       I("exec", "insert", "some_table", <<[x |-> 1, y |-> 1], [x |-> 2, y |-> 4]>>, 13),
       I("close", "connect", "", <<>>, 16),
       I("open", "begin", "", <<>>, 19),
       I("exec", "insert", "some_table", <<[x |-> 6, y |-> 8], [x |-> 9, y |-> 10]>>, 20),
       I("close", "begin", "", <<>>, 23),
       I("open", "connect", "", <<>>, 25),
       I("exec", "select_gt", "some_table", <<[y |-> 2]>>, 26),
       I("close", "connect", "", <<>>, 28),
       I("open", "session", "", <<>>, 31),
       I("exec", "select_gt_ordered", "some_table", <<[y |-> 2]>>, 32),
       I("close", "session", "", <<>>, 34),
       I("open", "session", "", <<>>, 36),
       I("exec", "update", "some_table", <<[x |-> 11, y |-> 15], [x |-> 12, y |-> 16]>>, 37),
       I("commit", "session", "", <<>>, 41),
       I("close", "session", "", <<>>, 41) >>

\* declaring_mapped_classes.py, the module body: engine, User, Address, create_all, drop_all
MappedClasses ==
    << I("engine", "sqlite", "", <<>>, 4),
       I("create_all", "", "", <<"user_account", "address">>, 31),
       I("drop_all", "", "", <<"user_account", "address">>, 32) >>

\* inserting_rows_with_core.py: the import of the mapped classes, then the module body
InsertingRowsScript ==
    MappedClasses \o
    << I("create_all", "", "", <<"user_account", "address">>, 5),
       I("open", "begin", "", <<>>, 10),
       I("exec", "insert", "user_account",
         <<[name |-> "spongebob", fullname |-> "Spongebob Squarepants"]>>, 11),
       I("close", "begin", "", <<>>, 12),
       I("open", "begin", "", <<>>, 15),
       I("exec", "insert", "user_account",
         <<[name |-> "sandy", fullname |-> "Sandy Cheeks"],
           [name |-> "patrick", fullname |-> "Patrick Star"]>>, 16),
       I("close", "begin", "", <<>>, 22),
       I("open", "begin", "", <<>>, 28),
       I("exec", "insert_subq", "address",
         <<[username |-> "spongebob", email_address |-> "spongebob@sqlalchemy.org"],
           [username |-> "sandy", email_address |-> "sandy@sqlalchemy.org"],
           [username |-> "sandy", email_address |-> "sandy@squirrelpower.org"]>>, 29),
       I("close", "begin", "", <<>>, 36) >>

\* orm_extensions/core.py: async_main.  Line 16 calls meta.create_all() with no bind,
\* which raises TypeError before run_sync is entered.
CoreScript ==
    << I("engine", "postgresql", "", <<>>, 11),
       I("open", "begin", "", <<>>, 15),
       I("raise", "TypeError", "", <<>>, 16),
       I("exec", "ddl_checkfirst", "t1", <<"t1">>, 16),
       I("exec", "insert", "t1", <<[name |-> "some name 1"], [name |-> "some name 2"]>>, 18),
       I("close", "begin", "", <<>>, 20),
       I("open", "connect", "", <<>>, 22),
       I("exec", "select_eq", "t1", <<[name |-> "some name 1"]>>, 23),
       I("close", "connect", "", <<>>, 25),
       I("dispose", "", "", <<>>, 27) >>

\* orm.py: insert_objects
InsertObjects ==
    << I("open", "session", "", <<>>, 42),
       I("open", "session_begin", "", <<>>, 43),
       I("add_all", "", "",
         <<[data |-> "a1", bs |-> 2], [data |-> "a2", bs |-> 0], [data |-> "a3", bs |-> 2]>>, 44),
       I("close", "session_begin", "", <<>>, 50),
       I("close", "session", "", <<>>, 50) >>

\* orm.py: fetch_and_update_objects
FetchAndUpdateObjects ==
    << I("exec", "select_all", "a", <<>>, 61),
       I("read_bs", "", "a", <<>>, 66),
       I("first_set_data", "", "a", <<[data |-> "new data"]>>, 70) >>

\* orm.py: one read of the relationship attribute A.bs on a loaded A
ReadOfBs ==
    << I("read_bs", "", "a", <<>>, 66) >>

\* orm.py, the module body: `class Base(declarative_base)` subclasses a function and
\* raises TypeError, so async_main is never entered.
OrmScript ==
    << I("raise", "TypeError", "", <<>>, 20),
       I("engine", "postgresql", "", <<>>, 75),
       I("open", "begin", "", <<>>, 82),
       I("exec", "ddl_checkfirst", "", <<"a", "b">>, 83),
       I("close", "begin", "", <<>>, 83) >>
    \o InsertObjects \o
    << I("raise", "NameError", "", <<>>, 86),
       I("dispose", "", "", <<>>, 88) >>

Scripts == {"txn", "ins", "core", "orm"}
EntryPoints == {"insert_objects", "fetch_and_update_objects", "A.bs"}
Programs == Scripts \cup EntryPoints

Program(p) ==
    CASE p = "txn" -> TxnScript
      [] p = "ins" -> InsertingRowsScript
      [] p = "core" -> CoreScript
      [] p = "orm" -> OrmScript
      [] p = "insert_objects" -> InsertObjects
      [] p = "fetch_and_update_objects" -> FetchAndUpdateObjects
      [] p = "A.bs" -> ReadOfBs

\* The dialect named by the engine URL of each program.
Dialect(p) == IF p \in {"txn", "ins"} THEN "sqlite" ELSE "postgresql"

----------------------------------------------------------------------------
(* The store: what the statements of the scripts compute *)

HasId(t) == t \in {"user_account", "address", "a", "b"}

\* Columns declared without a default and not nullable (Mapped[str], nullable=False,
\* primary keys, a_id).
NotNullOk(t, row) ==
    CASE t = "a" -> row.data # NullStr
      [] t = "b" -> row.a_id # NoId /\ row.data # NullStr
      [] t = "address" -> row.email_address # NullStr
      [] t = "t1" -> row.name # NullStr
      [] OTHER -> TRUE

\* Rows are appended in order; a table with an integer primary key gives each one its id.
RECURSIVE AppendRows(_, _, _)
AppendRows(t, rows, params) ==
    IF params = <<>> THEN rows
    ELSE AppendRows(t,
                    Append(rows, IF HasId(t) THEN [id |-> NextId(rows)] @@ Head(params)
                                 ELSE Head(params)),
                    Tail(params))

\* select(User.id).where(User.name == bindparam("username")).scalar_subquery()
ScalarSubqMut(users, username) ==
    LET hits == SelectSeq(users, LAMBDA u : u.fullname = username)
    IN IF hits = <<>> THEN NoId ELSE hits[1].id

ScalarSubq(users, username) ==
    LET hits == SelectSeq(users, LAMBDA u : u.name = username)
    IN IF hits = <<>> THEN NoId ELSE hits[1].id

\* insert(Address).values(user_id=scalar_subq) with one parameter set per row
AddressParams(params, w) ==
    [i \in 1..Len(params) |->
        [email_address |-> params[i].email_address,
         user_id |-> ScalarSubq(w["user_account"], params[i].username)]]

\* WHERE y > :y
WhereGtMut(row, p) == row.y < p.y

WhereGt(row, p) == row.y > p.y

\* WHERE name == :name
WhereNameEq(row, p) == row.name = p.name

\* ORDER BY x, y
LessXY(r, s) == r.x < s.x \/ (r.x = s.x /\ r.y < s.y)

RECURSIVE SortXY(_)
SortXY(rows) ==
    IF rows = <<>> THEN <<>>
    ELSE LET i == CHOOSE k \in 1..Len(rows) :
                      \A j \in 1..Len(rows) : ~LessXY(rows[j], rows[k])
             rest == [j \in 1..(Len(rows) - 1) |-> IF j < i THEN rows[j] ELSE rows[j + 1]]
         IN <<rows[i]>> \o SortXY(rest)

\* UPDATE some_table SET y = :y WHERE x = :x, once per parameter set
RECURSIVE UpdateWhere(_, _)
UpdateWhere(rows, params) ==
    IF params = <<>> THEN rows
    ELSE UpdateWhere([i \in 1..Len(rows) |->
                         IF rows[i].x = Head(params).x
                         THEN [rows[i] EXCEPT !.y = Head(params).y]
                         ELSE rows[i]],
                     Tail(params))

CreateTables(w, names) ==
    [t \in (DOMAIN w) \cup Range(names) |-> IF t \in DOMAIN w THEN w[t] ELSE <<>>]

DropTables(w, names) ==
    [t \in (DOMAIN w) \ Range(names) |-> w[t]]

IsDDL(instr) == instr.kind \in {"ddl", "ddl_checkfirst"}

IsInsert(instr) == instr.kind \in {"insert", "insert_subq"}

\* The rows an INSERT adds, before ids are assigned.
InsertParams(instr, w) ==
    IF instr.kind = "insert_subq" THEN AddressParams(instr.params, w) ELSE instr.params

\* The content after a statement that succeeds.
Effect(instr, w) ==
    CASE IsDDL(instr) -> CreateTables(w, instr.params)
      [] IsInsert(instr) ->
           [w EXCEPT ![instr.table] = AppendRows(instr.table, @, InsertParams(instr, w))]
      [] instr.kind = "update" ->
           [w EXCEPT ![instr.table] = UpdateWhere(@, instr.params)]
      [] OTHER -> w

\* The rows a statement may return; a statement that returns none leaves `cur`.
Results(instr, w, cur) ==
    CASE instr.kind = "select_const" -> {<<[v |-> "Hello World"]>>}
      [] instr.kind = "select_gt" ->
           Perms(SelectSeq(w[instr.table], LAMBDA r : WhereGt(r, instr.params[1])))
      [] instr.kind = "select_gt_ordered" ->
           {SortXY(SelectSeq(w[instr.table], LAMBDA r : WhereGt(r, instr.params[1])))}
      [] instr.kind = "select_eq" ->
           Perms(SelectSeq(w[instr.table], LAMBDA r : WhereNameEq(r, instr.params[1])))
      [] instr.kind = "select_all" -> Perms(w[instr.table])
      [] OTHER -> {cur}

\* The error the store answers a statement with, "none" when it accepts it.
StmtError(instr, w) ==
    CASE instr.kind = "select_const" -> "none"
      [] instr.kind = "ddl_checkfirst" -> "none"
      [] instr.kind = "ddl" ->
           IF \E n \in Range(instr.params) : n \in DOMAIN w
           THEN "OperationalError" ELSE "none"
      [] OTHER ->
           IF instr.table \notin DOMAIN w THEN "OperationalError"
           ELSE IF IsInsert(instr)
                   /\ \E i \in 1..Len(instr.params) :
                         ~NotNullOk(instr.table, InsertParams(instr, w)[i])
                THEN "IntegrityError"
                ELSE "none"

\* pysqlite opens the DBAPI transaction at the first INSERT/UPDATE only; the
\* asyncpg adapter opens it at the first statement.
BeginsDbTxn(dialect, instr) ==
    IF dialect = "sqlite" THEN IsInsert(instr) \/ instr.kind = "update" ELSE TRUE

\* A CREATE TABLE issued on pysqlite with no DBAPI transaction open is durable at once.
DDLInTransaction(dialect, inTxn) == FALSE

DDLDurable(dialect, inTxn) == dialect = "sqlite" /\ ~inTxn

----------------------------------------------------------------------------
(* The session's unit of work and the relationship A.bs *)

\* The rows the flush sends for one table: the Parents first, then their Children,
\* each Child carrying the id its Parent was just given.  B() is built with no data.
RECURSIVE ChildParams(_, _)
ChildParams(objs, ids) ==
    IF objs = <<>> THEN <<>>
    ELSE [k \in 1..Head(objs).bs |-> [a_id |-> Head(ids), data |-> NullStr]]
         \o ChildParams(Tail(objs), Tail(ids))

FlushParams(t, objs, w) ==
    IF t = "a"
    THEN [i \in 1..Len(objs) |-> [data |-> objs[i].data, create_date |-> "now()"]]
    ELSE LET n == Len(w["a"])
             ids == [i \in 1..Len(objs) |-> w["a"][n - Len(objs) + i].id]
         IN ChildParams(objs, ids)

FlushError(t, objs, w) ==
    IF t \notin DOMAIN w THEN "OperationalError"
    ELSE IF \E i \in 1..Len(FlushParams(t, objs, w)) :
                ~NotNullOk(t, FlushParams(t, objs, w)[i])
         THEN "IntegrityError"
         ELSE "none"

\* bs: Mapped[List[B]] = relationship(lazy="raise")
RelLazy == "raise"

ChildrenOf(w, id) == SelectSeq(w["b"], LAMBDA r : r.a_id = id)

\* What reading A.bs on an instance whose collection is not loaded does: the loader
\* strategy is asked first, the session second.
LazyLoad(strategy, attached, w, id) ==
    IF strategy = "raise" THEN [err |-> "InvalidRequestError", rows |-> <<>>]
    ELSE IF attached THEN [err |-> "none", rows |-> ChildrenOf(w, id)]
    ELSE [err |-> "DetachedInstanceError", rows |-> <<>>]

----------------------------------------------------------------------------
(* Scopes: the `with` blocks *)

NewScope(kind, line, st) ==
    [kind |-> kind, line |-> line,
     active |-> kind \in {"begin", "session_begin"},   \* begin() starts the transaction
     before |-> st, commits |-> 0, rollbacks |-> 0, stmts |-> 0, ins |-> ZeroCount]

\* What leaving a block does to its transaction.  engine.begin() and session.begin()
\* commit on a normal exit; engine.connect() and Session(engine) only close, which
\* rolls back whatever was not committed; an exception rolls back.
ExitOutcomeNoCommit(kind, raised, active) ==
    IF active THEN "rollback" ELSE "none"

ExitOutcomeKeep(kind, raised, active) ==
    IF kind \in {"begin", "session_begin"} THEN "commit"
    ELSE IF active THEN "rollback" ELSE "none"

ExitOutcome(kind, raised, active) ==
    IF raised THEN (IF active THEN "rollback" ELSE "none")
    ELSE IF kind \in {"begin", "session_begin"} THEN "commit"
    ELSE IF active THEN "rollback" ELSE "none"

EndRecord(sc, raised, out, w, st) ==
    [kind |-> sc.kind, line |-> sc.line, raised |-> raised, active |-> sc.active,
     commits |-> sc.commits + (IF out = "commit" THEN 1 ELSE 0),
     rollbacks |-> sc.rollbacks + (IF out = "rollback" THEN 1 ELSE 0),
     stmts |-> sc.stmts, before |-> sc.before, atExit |-> w, after |-> st]

\* engine.connect(), engine.begin() and Session(engine) each take a connection;
\* session.begin() is the transaction of the session that is already open.
OwnsConnection(sc) == sc.kind # "session_begin"

Top == scopes[Len(scopes)]

Pop == SubSeq(scopes, 1, Len(scopes) - 1)

Cur == Program(prog)[pc]

Running == status = "running" /\ exc = "none" /\ pc <= Len(Program(prog))

LogEntry(instr, table, ok) ==
    [pc |-> pc, line |-> instr.line, table |-> table, ok |-> ok,
     exists |-> table = "" \/ table \in DOMAIN work,
     engineOk |-> engine = "created",
     scope |-> IF scopes = <<>> THEN 0 ELSE Top.line]

\* The table a statement reads or writes; a CREATE TABLE reads none.
TargetOf(instr) == IF IsDDL(instr) THEN "" ELSE instr.table

----------------------------------------------------------------------------
(* Initial states *)

RECURSIVE PreKids(_, _, _)
PreKids(i, n, kids) ==
    IF i > n THEN <<>>
    ELSE [k \in 1..kids[i] |-> [a_id |-> i, data |-> "old"]] \o PreKids(i + 1, n, kids)

\* A store an orm.py function may be called on: tables a and b exist, every Child
\* row references a Parent row (the store enforces the foreign key).
PreStore(n, kids) ==
    [t \in {"a", "b"} |->
        IF t = "a"
        THEN AppendRows("a", <<>>, [i \in 1..n |-> [data |-> "old", create_date |-> "now()"]])
        ELSE AppendRows("b", <<>>, PreKids(1, n, kids))]

PreStores ==
    UNION { { PreStore(n, kids) : kids \in [1..n -> 0..MaxKids] } : n \in 0..MaxPre }

Init ==
    /\ prog \in Programs
    /\ pc = 1
    /\ status = "running"
    /\ exc = "none"
    /\ engine = IF prog \in Scripts THEN "none" ELSE "created"
    /\ store \in IF prog \in Scripts THEN {EmptyStore}
                 ELSE IF prog = "A.bs" THEN {st \in PreStores : st["a"] # <<>>}
                 ELSE PreStores
    /\ work = store
    /\ dbTxn = FALSE
    /\ base \in IF prog = "fetch_and_update_objects" THEN {1}
                ELSE IF prog = "A.bs" THEN {0, 1}
                ELSE {0}
    /\ scopes = IF base = 1 THEN <<NewScope("session", 53, store)>> ELSE <<>>
    /\ result \in IF prog = "A.bs" THEN {<<r>> : r \in Range(store["a"])} ELSE {<<>>}
    /\ bsRead = <<>>
    /\ pending = <<>>
    /\ added = <<>>
    /\ ended = <<>>
    /\ log = <<>>
    /\ insertedOk = ZeroCount

----------------------------------------------------------------------------
(* Actions: one per kind of instruction, plus exception propagation *)

\* create_engine(...) / create_async_engine(...), engine.dispose()
EngineStep ==
    /\ Running
    /\ Cur.op \in {"engine", "dispose"}
    /\ engine' = IF Cur.op = "engine" THEN "created" ELSE "disposed"
    /\ pc' = pc + 1
    /\ UNCHANGED <<prog, status, store, work, dbTxn, scopes, base, ended, exc, result,
                   bsRead, pending, added, log, insertedOk>>

\* metadata.create_all(engine) / drop_all(engine): checks first, commits by itself
SchemaStep ==
    /\ Running
    /\ Cur.op \in {"create_all", "drop_all"}
    /\ store' = IF Cur.op = "create_all" THEN CreateTables(store, Cur.params)
                ELSE DropTables(store, Cur.params)
    /\ work' = store'
    /\ pc' = pc + 1
    /\ UNCHANGED <<prog, status, engine, dbTxn, scopes, base, ended, exc, result,
                   bsRead, pending, added, log, insertedOk>>

\* with engine.connect() / engine.begin() / Session(engine) / session.begin()
OpenScope ==
    /\ Running
    /\ Cur.op = "open"
    /\ scopes' = Append(scopes, NewScope(Cur.kind, Cur.line, store))
    /\ pc' = pc + 1
    /\ UNCHANGED <<prog, status, engine, store, work, dbTxn, base, ended, exc, result,
                   bsRead, pending, added, log, insertedOk>>

\* conn.execute(...) / session.execute(...) that the store accepts
ExecOk ==
    /\ Running
    /\ Cur.op = "exec"
    /\ scopes # <<>>
    /\ StmtError(Cur, work) = "none"
    /\ \E r \in Results(Cur, work, result) : result' = r
    /\ work' = Effect(Cur, work)
    /\ store' = IF IsDDL(Cur) /\ DDLDurable(Dialect(prog), dbTxn)
                THEN Effect(Cur, store) ELSE store
    /\ dbTxn' = (dbTxn \/ BeginsDbTxn(Dialect(prog), Cur))
    /\ scopes' = [scopes EXCEPT ![Len(scopes)] =
                    [@ EXCEPT !.active = TRUE,
                              !.stmts = @ + 1,
                              !.ins = IF IsInsert(Cur)
                                      THEN [@ EXCEPT ![Cur.table] = @ + Len(Cur.params)]
                                      ELSE @]]
    /\ log' = Append(log, LogEntry(Cur, TargetOf(Cur), TRUE))
    /\ pc' = pc + 1
    /\ UNCHANGED <<prog, status, engine, base, ended, exc, bsRead, pending, added,
                   insertedOk>>

\* conn.execute(...) whose error is swallowed and the script goes on
ExecFailSwallowed ==
    /\ Running
    /\ Cur.op = "exec"
    /\ scopes # <<>>
    /\ scopes' = [scopes EXCEPT ![Len(scopes)] =
                    [@ EXCEPT !.active = TRUE, !.stmts = @ + 1]]
    /\ log' = Append(log, LogEntry(Cur, TargetOf(Cur), FALSE))
    /\ pc' = pc + 1
    /\ UNCHANGED <<prog, status, engine, store, work, dbTxn, base, ended, exc, result,
                   bsRead, pending, added, insertedOk>>

\* conn.execute(...) that raises: the error the store answers with, or else a
\* failure of the driver (connection lost, ...).  No script catches it.
ExecFail ==
    /\ Running
    /\ Cur.op = "exec"
    /\ scopes # <<>>
    /\ exc' = IF StmtError(Cur, work) # "none" THEN StmtError(Cur, work) ELSE "DriverError"
    /\ scopes' = [scopes EXCEPT ![Len(scopes)] =
                    [@ EXCEPT !.active = TRUE, !.stmts = @ + 1]]
    /\ log' = Append(log, LogEntry(Cur, TargetOf(Cur), FALSE))
    /\ UNCHANGED <<prog, pc, status, engine, store, work, dbTxn, base, ended, result,
                   bsRead, pending, added, insertedOk>>

\* session.commit()
Commit ==
    /\ Running
    /\ Cur.op = "commit"
    /\ scopes # <<>>
    /\ store' = work
    /\ dbTxn' = FALSE
    /\ scopes' = [scopes EXCEPT ![Len(scopes)] =
                    [@ EXCEPT !.active = FALSE, !.commits = @ + 1]]
    /\ pc' = pc + 1
    /\ UNCHANGED <<prog, status, engine, work, base, ended, exc, result, bsRead,
                   pending, added, log, insertedOk>>

\* session.add_all([...]): the objects become pending; nothing is sent yet
AddAll ==
    /\ Running
    /\ Cur.op = "add_all"
    /\ added' = Cur.params
    /\ pending' = <<"a", "b">>
    /\ pc' = pc + 1
    /\ UNCHANGED <<prog, status, engine, store, work, dbTxn, scopes, base, ended, exc,
                   result, bsRead, log, insertedOk>>

\* leaving session.begin() flushes first: one INSERT per table, accepted by the store
FlushOk ==
    /\ Running
    /\ Cur.op = "close"
    /\ pending # <<>>
    /\ FlushError(Head(pending), added, work) = "none"
    /\ work' = [work EXCEPT ![Head(pending)] =
                  AppendRows(Head(pending), @, FlushParams(Head(pending), added, work))]
    /\ dbTxn' = TRUE
    /\ scopes' = [scopes EXCEPT ![Len(scopes)] =
                    [@ EXCEPT !.stmts = @ + 1,
                              !.ins = [@ EXCEPT ![Head(pending)] =
                                         @ + Len(FlushParams(Head(pending), added, work))]]]
    /\ log' = Append(log, LogEntry(Cur, Head(pending), TRUE))
    /\ pending' = Tail(pending)
    /\ UNCHANGED <<prog, pc, status, engine, store, base, ended, exc, result, bsRead,
                   added, insertedOk>>

\* ... or refused by the store, or failed by the driver
FlushFail ==
    /\ Running
    /\ Cur.op = "close"
    /\ pending # <<>>
    /\ exc' = IF FlushError(Head(pending), added, work) # "none"
              THEN FlushError(Head(pending), added, work) ELSE "DriverError"
    /\ scopes' = [scopes EXCEPT ![Len(scopes)] = [@ EXCEPT !.stmts = @ + 1]]
    /\ log' = Append(log, LogEntry(Cur, Head(pending), FALSE))
    /\ UNCHANGED <<prog, pc, status, engine, store, work, dbTxn, base, ended, result,
                   bsRead, pending, added, insertedOk>>

\* the end of a `with` block reached without an exception
CloseOk ==
    /\ Running
    /\ Cur.op = "close"
    /\ scopes # <<>>
    /\ Top.kind = Cur.kind
    /\ pending = <<>>
    /\ LET out == ExitOutcome(Top.kind, FALSE, Top.active)
       IN /\ store' = IF out = "commit" THEN work ELSE store
          /\ work' = IF out = "rollback" THEN store ELSE work
          /\ ended' = Append(ended, EndRecord(Top, FALSE, out, work, store'))
    /\ dbTxn' = FALSE
    /\ insertedOk' = [t \in AllTables |-> insertedOk[t] + Top.ins[t]]
    /\ scopes' = Pop
    /\ pc' = pc + 1
    /\ UNCHANGED <<prog, status, engine, base, exc, result, bsRead, pending, added, log>>

\* an exception raised by the script's own code: meta.create_all() without a bind,
\* class Base(declarative_base), the undefined select_and_update_objects
RaiseCode ==
    /\ Running
    /\ Cur.op = "raise"
    /\ exc' = Cur.kind
    /\ UNCHANGED <<prog, pc, status, engine, store, work, dbTxn, scopes, base, ended,
                   result, bsRead, pending, added, log, insertedOk>>

\* for a1 in result.scalars(): for b1 in a1.bs: ...
ReadBs ==
    /\ Running
    /\ Cur.op = "read_bs"
    /\ LET got == LazyLoad(RelLazy, scopes # <<>>, work, Head(result).id)
       IN IF result = <<>>
          THEN /\ pc' = pc + 1
               /\ UNCHANGED <<exc, bsRead, result>>
          ELSE IF got.err # "none"
          THEN /\ exc' = got.err
               /\ UNCHANGED <<pc, bsRead, result>>
          ELSE /\ bsRead' = Append(bsRead, [a |-> Head(result).id, rows |-> got.rows])
               /\ result' = Tail(result)
               /\ UNCHANGED <<pc, exc>>
    /\ UNCHANGED <<prog, status, engine, store, work, dbTxn, scopes, base, ended,
                   pending, added, log, insertedOk>>

\* a1 = session.query(A).order_by(A.id).first(); a1.data = "new data"
\* first() gives None on an empty table; the new value is not flushed here.
FirstSetData ==
    /\ Running
    /\ Cur.op = "first_set_data"
    /\ IF work[Cur.table] = <<>>
       THEN exc' = "AttributeError" /\ pc' = pc
       ELSE exc' = exc /\ pc' = pc + 1
    /\ UNCHANGED <<prog, status, engine, store, work, dbTxn, scopes, base, ended,
                   result, bsRead, pending, added, log, insertedOk>>

\* the exception leaves the innermost `with` block of the program
Unwind ==
    /\ status = "running"
    /\ exc # "none"
    /\ Len(scopes) > base
    /\ LET out == ExitOutcome(Top.kind, TRUE, Top.active)
       IN /\ store' = IF out = "commit" THEN work ELSE store
          /\ work' = IF out = "rollback" THEN store ELSE work
          /\ ended' = Append(ended, EndRecord(Top, TRUE, out, work, store'))
    /\ dbTxn' = FALSE
    /\ pending' = <<>>
    /\ scopes' = Pop
    /\ UNCHANGED <<prog, pc, status, engine, base, exc, result, bsRead, added, log,
                   insertedOk>>

\* the exception leaves the program: nothing catches it
Crash ==
    /\ status = "running"
    /\ exc # "none"
    /\ Len(scopes) = base
    /\ status' = "crashed"
    /\ UNCHANGED <<prog, pc, engine, store, work, dbTxn, scopes, base, ended, exc,
                   result, bsRead, pending, added, log, insertedOk>>

\* the last instruction is done
Finish ==
    /\ status = "running"
    /\ exc = "none"
    /\ pc > Len(Program(prog))
    /\ status' = "finished"
    /\ UNCHANGED <<prog, pc, engine, store, work, dbTxn, scopes, base, ended, exc,
                   result, bsRead, pending, added, log, insertedOk>>

Next ==
    \/ EngineStep
    \/ SchemaStep
    \/ OpenScope
    \/ ExecOk
    \/ ExecFail
    \/ Commit
    \/ AddAll
    \/ FlushOk
    \/ FlushFail
    \/ CloseOk
    \/ RaiseCode
    \/ ReadBs
    \/ FirstSetData
    \/ Unwind
    \/ Crash
    \/ Finish

Spec == Init /\ [][Next]_vars

----------------------------------------------------------------------------
(* Properties *)

Count(seq, r) == Cardinality({i \in 1..Len(seq) : seq[i] = r})

BeginKinds == {"begin", "session_begin"}

\* a statement issued inside the scope opened at `line` raised
StatementFailedIn(line) == \E j \in 1..Len(log) : ~log[j].ok /\ log[j].scope = line

\* C1: every scope opened with begin() ends with exactly one outcome: a commit when
\* no statement of the scope raised and the block was left normally, a rollback
\* when one raised; never both, never neither.  The INSERTs a session flushes on
\* leaving session.begin() are statements of that scope.
BeginScopeHasOneOutcome ==
    \A i \in 1..Len(ended) :
        ended[i].kind \in BeginKinds =>
            /\ ended[i].commits + ended[i].rollbacks = 1
            /\ ~ended[i].raised => (ended[i].commits = 1 /\ ended[i].after = ended[i].atExit)
            /\ ended[i].raised => (ended[i].rollbacks = 1 /\ ended[i].after = ended[i].before)
            /\ StatementFailedIn(ended[i].line) => ended[i].rollbacks = 1

\* C1 witness: one begin() block has committed and a later one has rolled back
\* because its statement raised.
BeginScopeCommittedAndRolledBack ==
    \E i, j \in 1..Len(ended) :
        /\ ended[i].kind = "begin" /\ ended[i].commits = 1 /\ ended[i].rollbacks = 0
        /\ ended[j].kind = "begin" /\ ended[j].rollbacks = 1 /\ ended[j].commits = 0
        /\ StatementFailedIn(ended[j].line)

NewParentData == {"a1", "a2", "a3"}

\* what a store shows: no row of `after` is new and none of `before` is missing
SameRows(before, after) ==
    /\ \A t \in DOMAIN before : t \in DOMAIN after /\ after[t] = before[t]
    /\ \A t \in DOMAIN after : t \notin DOMAIN before => after[t] = <<>>

\* C2: a scope left by an exception leaves the store as it was when the scope was
\* opened (a begin() scope exactly; a connect() block on pysqlite may leave the empty
\* table its CREATE TABLE made, and no row); after insert_objects fails, none of
\* its Parent rows and no Child row of theirs is in the store.
RollbackLeavesStoreUnchanged ==
    \A i \in 1..Len(ended) :
        ended[i].raised =>
            /\ SameRows(ended[i].before, ended[i].after)
            /\ SameRows(ended[i].before, store)
            /\ ended[i].kind \in BeginKinds =>
                 (ended[i].after = ended[i].before /\ store = ended[i].before)
            /\ prog = "insert_objects" =>
                 /\ \A k \in 1..Len(store["a"]) : store["a"][k].data \notin NewParentData
                 /\ \A k \in 1..Len(store["b"]) : store["b"][k].data # NullStr
                 /\ store = ended[i].before

\* C2 witness: insert_objects failed after its 3 Parent rows had been sent, and the
\* store holds what it held before.
InsertObjectsRolledBackAfterParents ==
    /\ prog = "insert_objects"
    /\ status = "crashed"
    /\ \E i \in 1..Len(ended) :
          /\ ended[i].kind = "session_begin"
          /\ ended[i].raised
          /\ Len(ended[i].atExit["a"]) = Len(ended[i].before["a"]) + 3
          /\ store = ended[i].before

CountedTables == {"some_table", "t1", "user_account"}

\* C3: once a block that inserted rows has exited without error, a count of the
\* table equals the number of rows inserted so far.
CountEqualsInserted ==
    (prog \in Scripts /\ scopes = <<>> /\ exc = "none") =>
        \A t \in CountedTables :
            IF t \in DOMAIN store THEN Len(store[t]) = insertedOk[t]
            ELSE insertedOk[t] = 0

HasRow(rows, r) == \E i \in 1..Len(rows) : rows[i] = r

\* C4: after the UPDATE block has committed, some_table shows a row with x = 11
\* and y = 15 and a row with x = 12 and y = 16.
UpdateReflected ==
    (prog = "txn" /\ status = "finished") =>
        /\ HasRow(store["some_table"], [x |-> 11, y |-> 15])
        /\ HasRow(store["some_table"], [x |-> 12, y |-> 16])

LastStatement == Program(prog)[log[Len(log)].pc]

\* the result object holds what the last statement, a SELECT ... WHERE y > :y, returned
FilterJustRan ==
    /\ prog = "txn"
    /\ log # <<>>
    /\ log[Len(log)].ok
    /\ pc = log[Len(log)].pc + 1
    /\ LastStatement.kind \in {"select_gt", "select_gt_ordered"}

\* C5: SELECT x, y FROM some_table WHERE y > 2 returns rows with y > 2 only, and
\* every visible row with y > 2 exactly once; with ORDER BY x, y the same rows come
\* in ascending (x, y) order.
FilterReturnsExactlyMatching ==
    FilterJustRan =>
        /\ \A i \in 1..Len(result) : result[i].y > 2
        /\ \A k \in 1..Len(work["some_table"]) :
              work["some_table"][k].y > 2 =>
                 Count(result, work["some_table"][k])
                     = Count(work["some_table"], work["some_table"][k])
        /\ \A i \in 1..Len(result) : HasRow(work["some_table"], result[i])
        /\ LastStatement.kind = "select_gt_ordered" =>
              \A i, j \in 1..Len(result) :
                  i < j => \/ result[i].x < result[j].x
                           \/ (result[i].x = result[j].x /\ result[i].y <= result[j].y)

\* C5 witness: the ordered SELECT has returned the two visible rows.
OrderedFilterReturnedRows ==
    /\ FilterJustRan
    /\ LastStatement.kind = "select_gt_ordered"
    /\ Len(result) = 2

ChildReferencesOneParent ==
    scopes = <<>> =>
        /\ "b" \in DOMAIN store =>
              \A i \in 1..Len(store["b"]) :
                  /\ store["b"][i].a_id # NoId
                  /\ Cardinality({k \in 1..Len(store["a"]) :
                                     store["a"][k].id = store["b"][i].a_id}) = 1
        /\ "address" \in DOMAIN store =>
              \A i \in 1..Len(store["address"]) :
                  /\ store["address"][i].user_id # NoId
                  /\ Cardinality({k \in 1..Len(store["user_account"]) :
                                     store["user_account"][k].id
                                         = store["address"][i].user_id}) = 1
        /\ (prog = "ins" /\ status = "finished") =>
              \A n \in 1..Len(Program("ins")) :
                  Program("ins")[n].kind = "insert_subq" =>
                      \A p \in Range(Program("ins")[n].params) :
                          \E i \in 1..Len(store["address"]) :
                              /\ store["address"][i].email_address = p.email_address
                              /\ \E k \in 1..Len(store["user_account"]) :
                                    /\ store["user_account"][k].name = p.username
                                    /\ store["user_account"][k].id
                                           = store["address"][i].user_id

\* C8 witness: the three addresses are stored.
AddressesStored ==
    /\ prog = "ins"
    /\ status = "finished"
    /\ Len(store["address"]) = 3
    /\ Len(store["user_account"]) = 3

\* C9: the run of core.py that meets no store failure inserts the t1 rows, commits,
\* and its SELECT by name returns exactly the inserted row 'some name 1'.
T1RoundTrip ==
    (prog = "core" /\ status # "running" /\ exc # "DriverError") =>
        /\ result = <<[name |-> "some name 1"]>>
        /\ HasRow(store["t1"], [name |-> "some name 2"])

\* C10: once a statement has failed, nothing more is issued (no later statement,
\* no retry, no later scope), the exception propagates and the script does not
\* finish, and the scope the statement was issued in ends with a rollback.
FailureAbortsScript ==
    \A i \in 1..Len(log) :
        ~log[i].ok =>
            /\ i = Len(log)
            /\ pc = log[i].pc
            /\ exc # "none"
            /\ status # "finished"
            /\ \A k \in 1..Len(scopes) : scopes[k].line <= log[i].scope
            /\ \A k \in 1..Len(ended) :
                  ended[k].line = log[i].scope =>
                     /\ ended[k].raised
                     /\ ended[k].rollbacks = 1
                     /\ ended[k].commits = 0
                     /\ SameRows(ended[k].before, ended[k].after)

\* C10 witness: a statement failed, its scope rolled back, the script crashed.
StatementFailedAndScriptCrashed ==
    /\ prog \in Scripts
    /\ status = "crashed"
    /\ \E i \in 1..Len(log) :
          /\ ~log[i].ok
          /\ \E k \in 1..Len(ended) :
                ended[k].line = log[i].scope /\ ended[k].rollbacks = 1

====
